---- MODULE Spec2Model ----
(***************************************************************************)
(* Askify - AI Voice Tutor: the video-dubbing pipeline.                    *)
(*                                                                         *)
(*   src/dub.py   create_dub_job, poll_job_until_complete,                 *)
(*                download_url_bytes, srt_to_plain_text,                   *)
(*                generate_notes_from_text                                 *)
(*   src/main.py  POST /api/dub, GET /api/dub_status                       *)
(*   src/app.py   the "Dub" button handler of the Streamlit tab            *)
(*                                                                         *)
(* One behaviour serves one request.  Time is counted in whole seconds.    *)
(* Python's None is the string "None"; a field or attribute that does not  *)
(* exist at all is the string "absent".                                    *)
(***************************************************************************)
EXTENDS Integers, Sequences, FiniteSets, TLC

VARIABLES
    req,          \* the request being served ("idle" before any)
    pc,           \* position of the request's handler
    err,          \* the error surfaced to the caller, "none" if none
    locale,       \* target_locale of the request
    jobId,        \* job id held by the handler
    stages,       \* log of the pipeline stages executed, in order
    ytDownloads,  \* calls of download_youtube_highest_mp4 (network)
    filesOpened,  \* files opened by the handler or create_dub_job
    created,      \* murf_client.dubbing.jobs.create calls (network)
    fetches,      \* download_url_bytes calls (network)
    llmCalls,     \* chat.invoke calls (network)
    pollPc,       \* position inside poll_job_until_complete
    interval,     \* poll_interval
    timeout,      \* timeout_sec
    elapsed,      \* time.time() - start
    latency,      \* seconds a get_status round trip takes during this call
    attempt,      \* attempt
    queries,      \* murf_client.dubbing.jobs.get_status calls (network)
    nonTermSeen,  \* history: replies seen whose status is not terminal
    termSeen,     \* history: replies seen whose status is terminal
    termReply,    \* history: the terminal reply seen
    sleeps,       \* history: time.sleep calls
    lastSleep,    \* sleep_time of the latest time.sleep
    final,        \* value returned by poll_job_until_complete
    overdue,      \* elapsed > timeout_sec at the moment of the return
    response,     \* body returned by the API handler / shown by the UI
    srtIn,        \* bytes given to srt_to_plain_text
    srtOut,       \* its result
    srtOut2,      \* result of running it on its own result
    llm,          \* outcome of the chat.invoke call
    notes         \* value of generate_notes_from_text / the notes shown

vars == <<req, pc, err, locale, jobId, stages, ytDownloads, filesOpened,
          created, fetches, llmCalls, pollPc, interval, timeout, elapsed,
          latency, attempt, queries, nonTermSeen, termSeen, termReply, sleeps,
          lastSleep, final, overdue, response, srtIn, srtOut, srtOut2,
          llm, notes>>

reqVars  == <<req, pc, err, locale, jobId, stages>>
netVars  == <<ytDownloads, filesOpened, created, fetches, llmCalls>>
pollVars == <<pollPc, interval, timeout, elapsed, latency, attempt, queries,
              nonTermSeen, termSeen, termReply, sleeps, lastSleep, final,
              overdue>>
textVars == <<response, srtIn, srtOut, srtOut2, llm, notes>>

None   == "None"
Absent == "absent"

Min(a, b) == IF a < b THEN a ELSE b

(***************************************************************************)
(* Bounds of the model.                                                    *)
(***************************************************************************)
MaxTimeout  == 10   \* timeout_sec of a direct poller call ranges over 0..MaxTimeout
MaxInterval == 2    \* poll_interval of a direct poller call ranges over 1..MaxInterval
MaxDelay    == 1    \* a get_status round trip takes 0..MaxDelay seconds
MaxLines    == 3    \* lines of a subtitle input
MaxReplyLen == 3    \* characters of a language-model reply

(***************************************************************************)
(* Program constants.                                                      *)
(***************************************************************************)
DefaultPollInterval == 3
DefaultTimeout      == 1800
BackoffStep         == 10
MaxSleep            == 15

TARGET_LOCALES ==
    { "en_US", "en_UK", "en_IN", "en_SCOTT", "en_AU",
      "fr_FR", "de_DE", "es_ES", "es_MX", "it_IT", "pt_BR", "pl_PL",
      "hi_IN", "ko_KR", "ta_IN", "bn_IN", "ja_JP", "zh_CN", "nl_NL", "fi_FI",
      "ru_RU", "tr_TR", "uk_UA", "da_DK", "id_ID", "ro_RO", "nb_NO" }

\* Locale strings a request may carry: one supported, two not.
LocaleInputs == { "en_US", "en_us", "xx_XX" }

(***************************************************************************)
(* Provider replies to get_status.                                         *)
(***************************************************************************)
\* A download descriptor: download_url and download_srt_url.
Descriptor(u, s) == [download_url |-> u, download_srt_url |-> s]

\* download_details: not in the payload, None, or a list of descriptors.
Details(k, items) == [kind |-> k, items |-> items]
NoDetails == Details(Absent, <<>>)

DetailShapes ==
    { Details(None, <<>>),
      Details("list", <<>>),
      Details("list", << Descriptor("video-1", "srt-1") >>),
      Details("list", << Descriptor("video-1", None) >>),
      Details("list", << Descriptor("video-1", Absent) >>),
      Details("list", << Descriptor(None, "srt-1") >>),
      Details("list", << Descriptor("", "srt-1") >>),
      Details("list", << Descriptor(Absent, "srt-1") >>),
      Details("list", << Descriptor(None, "srt-1"),
                         Descriptor("video-2", "srt-2") >>),
      Details("list", << Descriptor("video-1", "srt-1"),
                         Descriptor("video-2", "srt-2") >>) }

\* The `result` attribute read by GET /api/dub_status: not in the payload,
\* None, or a mapping with some of the six keys the handler looks up.
ResultMap(k, d, v, o, s, r, c) ==
    [kind |-> k, dubbed_url |-> d, video_url |-> v, output_url |-> o,
     subtitles_url |-> s, srt_url |-> r, captions_url |-> c]
NoResult == ResultMap(Absent, Absent, Absent, Absent, Absent, Absent, Absent)

ResultShapes ==
    { ResultMap(None, Absent, Absent, Absent, Absent, Absent, Absent),
      ResultMap("dict", Absent, Absent, Absent, Absent, Absent, Absent),
      ResultMap("dict", "video-1", Absent, Absent, "srt-1", Absent, Absent),
      ResultMap("dict", Absent, "video-2", Absent, Absent, "srt-2", Absent),
      ResultMap("dict", Absent, Absent, "video-3", Absent, Absent, Absent),
      ResultMap("dict", Absent, Absent, Absent, Absent, Absent, "srt-3") }

Reply(s, d, r) == [status |-> s, download_details |-> d, result |-> r]

PendingStatuses  == { "RUNNING", "pending", Absent }
TerminalStatuses == { "COMPLETED", "completed", "FAILED", "Error" }

Replies ==
    { Reply(s, NoDetails, NoResult) : s \in PendingStatuses \cup TerminalStatuses }
    \cup { Reply(s, d, NoResult) : s \in TerminalStatuses, d \in DetailShapes }
    \cup { Reply(s, NoDetails, r) : s \in TerminalStatuses, r \in ResultShapes }

NoReply == Reply("none", NoDetails, NoResult)

\* str.upper() on the status strings above.
Upper(s) ==
    CASE s = "pending"   -> "PENDING"
      [] s = "completed" -> "COMPLETED"
      [] s = "Error"     -> "ERROR"
      [] OTHER           -> s

\* str.lower() on the status strings above.
Lower(s) ==
    CASE s = "RUNNING"   -> "running"
      [] s = "COMPLETED" -> "completed"
      [] s = "FAILED"    -> "failed"
      [] s = "Error"     -> "error"
      [] s = "ERROR"     -> "error"
      [] OTHER           -> s

\* status_dict.get("status", "")
StatusText(reply) == IF reply.status = Absent THEN "" ELSE reply.status

\* A status that is COMPLETED, FAILED or ERROR whatever its letter case.
TerminalName(s) == Lower(s) \in { "completed", "failed", "error" }

\* What a handler hands back: the JSON body of an API reply, or what the
\* Streamlit page shows under "Compare Videos".
Response(shape, st, job, video, srt, n) ==
    [shape |-> shape, status |-> st, job_id |-> job,
     dubbed_video_url |-> video, subtitles_url |-> srt, notes |-> n]
NoResponse == Response("none", Absent, Absent, Absent, Absent, <<>>)

(***************************************************************************)
(* poll_job_until_complete                                                 *)
(***************************************************************************)
IsTerminalNoUpper(reply) ==
    StatusText(reply) \in { "COMPLETED", "FAILED", "ERROR" }

\* s = str(status_dict.get("status", "")).upper();  s in (...)
IsTerminal(reply) ==
    Upper(StatusText(reply)) \in { "COMPLETED", "FAILED", "ERROR" }

TimedOutEarly(e, t) == e > t - DefaultPollInterval

\* time.time() - start > timeout_sec
TimedOut(e, t) == e > t

SleepTimeUncapped(i, n) == i * (1 + n \div BackoffStep)

\* min(poll_interval * (1 + attempt // 10), 15)
SleepTime(i, n) == Min(i * (1 + n \div BackoffStep), MaxSleep)

\* start = time.time(); attempt = 0
PollStart(i, t) ==
    /\ pollPc' = "query"
    /\ interval' = i
    /\ timeout' = t
    /\ elapsed' = 0
    /\ attempt' = 0
    /\ latency' \in 0..MaxDelay
    /\ UNCHANGED <<queries, nonTermSeen, termSeen, termReply, sleeps,
                   lastSleep, final, overdue>>

\* History of the replies, kept for the properties.
Observe(reply) ==
    /\ queries' = queries + 1
    /\ IF TerminalName(StatusText(reply))
         THEN /\ termSeen' = termSeen + 1
              /\ termReply' = reply
              /\ UNCHANGED nonTermSeen
         ELSE /\ nonTermSeen' = nonTermSeen + 1
              /\ UNCHANGED <<termSeen, termReply>>

PollQueryTimeoutFirst(reply) ==
    /\ pollPc = "query"
    /\ Observe(reply)
    /\ IF elapsed + latency > timeout
         THEN /\ elapsed' = elapsed + latency
              /\ pollPc' = "raised"
              /\ UNCHANGED <<final, overdue, latency>>
         ELSE IF IsTerminal(reply)
         THEN /\ final' = reply
              /\ overdue' = FALSE
              /\ elapsed' = 0
              /\ latency' = 0
              /\ pollPc' = "returned"
         ELSE /\ elapsed' = elapsed + latency
              /\ pollPc' = "check"
              /\ UNCHANGED <<final, overdue, latency>>
    /\ UNCHANGED <<interval, timeout, attempt, sleeps, lastSleep>>
    /\ UNCHANGED <<reqVars, netVars, textVars>>

\* One pass of the loop body down to the terminal test: get_status replies
\* `reply` after `latency` seconds; a terminal status returns the payload
\* (the function's frame, and with it `start`, is gone after the return),
\* any other status goes on to the timeout check.
PollQuery(reply) ==
    /\ pollPc = "query"
    /\ Observe(reply)
    /\ IF IsTerminal(reply)
         THEN /\ final' = reply
              /\ overdue' = (elapsed + latency > timeout)
              /\ elapsed' = 0
              /\ latency' = 0
              /\ pollPc' = "returned"
         ELSE /\ elapsed' = elapsed + latency
              /\ pollPc' = "check"
              /\ UNCHANGED <<final, overdue, latency>>
    /\ UNCHANGED <<interval, timeout, attempt, sleeps, lastSleep>>
    /\ UNCHANGED <<reqVars, netVars, textVars>>

\* get_status answers with a status the code takes as terminal.
PollQueryTerminal ==
    \E reply \in Replies : IsTerminal(reply) /\ PollQuery(reply)

\* get_status answers with any other status.
PollQueryPending ==
    \E reply \in Replies : ~IsTerminal(reply) /\ PollQuery(reply)

\* get_status itself raises (transport or provider error): it propagates.
PollQueryError ==
    /\ pollPc = "query"
    /\ queries' = queries + 1
    /\ pollPc' = "failed"
    /\ elapsed' = 0
    /\ latency' = 0
    /\ UNCHANGED <<interval, timeout, attempt, nonTermSeen, termSeen,
                   termReply, sleeps, lastSleep, final, overdue>>
    /\ UNCHANGED <<reqVars, netVars, textVars>>

\* raise TimeoutError("Polling timed out.")
PollRaiseTimeout ==
    /\ pollPc = "check"
    /\ TimedOut(elapsed, timeout)
    /\ pollPc' = "raised"
    /\ UNCHANGED <<interval, timeout, elapsed, latency, attempt, queries, nonTermSeen,
                   termSeen, termReply, sleeps, lastSleep, final, overdue>>
    /\ UNCHANGED <<reqVars, netVars, textVars>>

\* attempt += 1; sleep_time = ...; time.sleep(sleep_time)
PollSleep ==
    /\ pollPc = "check"
    /\ ~TimedOut(elapsed, timeout)
    /\ attempt' = attempt + 1
    /\ lastSleep' = SleepTime(interval, attempt + 1)
    /\ elapsed' = elapsed + SleepTime(interval, attempt + 1)
    /\ sleeps' = sleeps + 1
    /\ pollPc' = "query"
    /\ UNCHANGED <<interval, timeout, latency, queries, nonTermSeen,
                   termSeen, termReply, final, overdue>>
    /\ UNCHANGED <<reqVars, netVars, textVars>>

\* A direct call poll_job_until_complete(job_id, poll_interval, timeout_sec).
PollCall ==
    /\ req = "idle"
    /\ req' = "poll"
    /\ pc' = "polling"
    /\ jobId' = "job-1"
    /\ stages' = <<"poll">>
    /\ \E i \in 1..MaxInterval, t \in 0..MaxTimeout : PollStart(i, t)
    /\ UNCHANGED <<err, locale>>
    /\ UNCHANGED <<netVars, textVars>>

(***************************************************************************)
(* Text.  A str or bytes value is a sequence of tokens:                    *)
(*   "a"   a run of characters that are neither digits nor white space     *)
(*   "d"   a maximal run of decimal digits                                 *)
(*   "H"   the head of a timestamp range, "00:00:01,000 --> 00:00:02,"     *)
(*   "t"   the three digits that end a timestamp range, "000"              *)
(*   "NL"  "\n"          " "  a blank          "BAD"  an undecodable byte  *)
(* so that the line "00:00:01,000 --> 00:00:02,000" is <<"H", "t">>.       *)
(***************************************************************************)
IsSpace(c) == c \in { "NL", " " }
IsDigit(c) == c \in { "d", "t" }

RECURSIVE LStrip(_)
LStrip(s) ==
    IF s = <<>> THEN s
    ELSE IF IsSpace(Head(s)) THEN LStrip(Tail(s)) ELSE s

RECURSIVE RStrip(_)
RStrip(s) ==
    IF s = <<>> THEN s
    ELSE IF IsSpace(s[Len(s)]) THEN RStrip(SubSeq(s, 1, Len(s) - 1)) ELSE s

\* str.strip()
Strip(s) == RStrip(LStrip(s))

BeginsWith(s, prefix) ==
    /\ Len(s) >= Len(prefix)
    /\ SubSeq(s, 1, Len(prefix)) = prefix

\* bytes.decode("utf-8", errors="ignore"): undecodable bytes are dropped.
Decode(b) == SelectSeq(b, LAMBDA c : c # "BAD")

\* str.encode(): every token of a str is encodable.
Encode(s) == s

\* First index >= i of s that holds no white space (Len(s) + 1 if none).
RECURSIVE SkipSpace(_, _)
SkipSpace(s, i) ==
    IF i > Len(s) THEN i
    ELSE IF IsSpace(s[i]) THEN SkipSpace(s, i + 1) ELSE i

\* First index >= i of s that holds no newline (Len(s) + 1 if none).
RECURSIVE SkipNewlines(_, _)
SkipNewlines(s, i) ==
    IF i > Len(s) THEN i
    ELSE IF s[i] = "NL" THEN SkipNewlines(s, i + 1) ELSE i

\* Greatest index in lo..hi of s that holds a newline (0 if none).
RECURSIVE LastNewline(_, _, _)
LastNewline(s, lo, hi) ==
    IF hi < lo THEN 0
    ELSE IF s[hi] = "NL" THEN hi ELSE LastNewline(s, lo, hi - 1)

\* A match of \d+\s*\n<timestamp range> that starts at i: the index after
\* it, or 0.  The digits are one token; the white space after them must end
\* in a newline, right before the range.
CueMatchEnd(s, i) ==
    LET k == SkipSpace(s, i + 1) IN
    IF /\ IsDigit(s[i])
       /\ k > i + 1
       /\ s[k - 1] = "NL"
       /\ k + 1 <= Len(s)
       /\ s[k] = "H"
       /\ s[k + 1] = "t"
    THEN k + 2
    ELSE 0

\* re.sub(r"\d+\s*\n\d{2}:\d{2}:\d{2},\d{3}\s*-->\s*\d{2}:\d{2}:\d{2},\d{3}", "", text)
RECURSIVE StripCues(_, _)
StripCues(s, i) ==
    IF i > Len(s) THEN <<>>
    ELSE IF CueMatchEnd(s, i) # 0 THEN StripCues(s, CueMatchEnd(s, i))
    ELSE <<s[i]>> \o StripCues(s, i + 1)

\* re.sub(r"\n{2,}", "\n", text)
RECURSIVE CollapseNewlines(_, _)
CollapseNewlines(s, i) ==
    IF i > Len(s) THEN <<>>
    ELSE IF s[i] = "NL" /\ i < Len(s) /\ s[i + 1] = "NL"
         THEN <<"NL">> \o CollapseNewlines(s, SkipNewlines(s, i))
    ELSE <<s[i]>> \o CollapseNewlines(s, i + 1)

\* A match of (?m)^\d+\s*$ that starts at i: the index after it, or 0.
\* \s* is greedy and gives back until $ holds, which is at the end of the
\* text or right before a newline.
NumericLineMatchEnd(s, i) ==
    LET k == SkipSpace(s, i + 1)
        n == LastNewline(s, i + 1, k - 1)
    IN
    IF ~( /\ IsDigit(s[i])
          /\ (i = 1 \/ s[i - 1] = "NL") )
    THEN 0
    ELSE IF k > Len(s) THEN k
    ELSE IF n # 0 THEN n
    ELSE 0

\* re.sub(r"(?m)^\d+\s*$", "", text)
RECURSIVE StripNumericLines(_, _)
StripNumericLines(s, i) ==
    IF i > Len(s) THEN <<>>
    ELSE IF NumericLineMatchEnd(s, i) # 0
         THEN StripNumericLines(s, NumericLineMatchEnd(s, i))
    ELSE <<s[i]>> \o StripNumericLines(s, i + 1)

srt_to_plain_text(srt_bytes) ==
    Strip(StripNumericLines(
            CollapseNewlines(
              StripCues(Decode(srt_bytes), 1), 1), 1))

\* Lines of a subtitle file.
LineKinds ==
    { <<"a">>,            \* a text line
      <<"d">>,            \* a numeric-only line
      <<"H", "t">>,       \* a timestamp-range line
      <<>>,               \* a blank line
      <<"a", "BAD">> }    \* a text line with an undecodable byte

RECURSIVE JoinLines(_)
JoinLines(ls) ==
    IF ls = <<>> THEN <<>>
    ELSE IF Len(ls) = 1 THEN ls[1]
    ELSE ls[1] \o <<"NL">> \o JoinLines(Tail(ls))

LineSeqs == UNION { [1..n -> LineKinds] : n \in 0..MaxLines }

\* Every file of at most MaxLines lines, with and without a final newline.
SrtInputs ==
    { JoinLines(ls) : ls \in LineSeqs }
    \cup { JoinLines(ls) \o <<"NL">> : ls \in LineSeqs }

\* "1\n00:00:01,000 --> 00:00:02,000\nHello world\n\n2\n00:00:02,500 --> 00:00:03,000\nSecond line\n"
SrtSample ==
    << "d", "NL", "H", "t", "NL", "a", "NL", "NL",
       "d", "NL", "H", "t", "NL", "a", "NL" >>

(***************************************************************************)
(* generate_notes_from_text                                                *)
(***************************************************************************)
NotesErrorPrefix == << "- (Error generating notes)" >>
CouldNotPrefix   == << "- (Could not generate notes)" >>
NoneText         == << "None" >>

\* chat.invoke either answers with text or raises with a message.
ReplyTexts == UNION { [1..n -> {"a", " ", "NL"}] : n \in 0..MaxReplyLen }
ErrorTexts == { <<>>, <<"a">>, <<"a", " ", "a">> }
LlmOutcomes ==
    { [called |-> TRUE, ok |-> TRUE, text |-> x] : x \in ReplyTexts }
    \cup { [called |-> TRUE, ok |-> FALSE, text |-> x] : x \in ErrorTexts }
NoLlm == [called |-> FALSE, ok |-> FALSE, text |-> <<>>]

generate_notes_propagating(outcome) ==
    IF outcome.ok
    THEN [raised |-> FALSE, value |-> Strip(outcome.text)]
    ELSE [raised |-> TRUE, value |-> outcome.text]

\* try: return chat.invoke(prompt_text).content.strip()
\* except Exception as e: return f"- (Error generating notes) {e}"
generate_notes_from_text(outcome) ==
    IF outcome.ok
    THEN [raised |-> FALSE, value |-> Strip(outcome.text)]
    ELSE [raised |-> FALSE,
          value |-> NotesErrorPrefix \o <<" ">> \o outcome.text]

(***************************************************************************)
(* Python truthiness and lookups with a None default.                      *)
(***************************************************************************)
Truthy(v) == v \notin { Absent, None, "" }

\* dict.get(key) / getattr(obj, name, None)
Get(v) == IF v = Absent THEN None ELSE v

\* a or b
PyOr(a, b) == IF Truthy(a) THEN a ELSE b

(***************************************************************************)
(* How a handler leaves a failed stage.                                    *)
(***************************************************************************)
FallThrough(r, nextPc) == IF r = "ui_dub" THEN nextPc ELSE "raised"

\* The Streamlit handler reports with st.error and ends the script run with
\* st.stop(); in the API handlers and in direct calls the exception
\* propagates to the caller.
AfterError(r, nextPc) == IF r = "ui_dub" THEN "stopped" ELSE "raised"

Fail(e, nextPc) ==
    /\ err' = e
    /\ pc' = AfterError(req, nextPc)

(***************************************************************************)
(* Requests                                                                *)
(***************************************************************************)
\* The "Dub" button of the Streamlit tab; the selectbox offers
\* TARGET_LOCALES only.
UiDubClick ==
    /\ req = "idle"
    /\ req' = "ui_dub"
    /\ pc' = "acquire"
    /\ locale' \in LocaleInputs \cap TARGET_LOCALES
    /\ UNCHANGED <<err, jobId, stages>>
    /\ UNCHANGED <<netVars, pollVars, textVars>>

\* POST /api/dub {youtube_url, target_locale}
ApiDubStart ==
    /\ req = "idle"
    /\ req' = "api_dub"
    /\ pc' = "acquire"
    /\ locale' \in LocaleInputs
    /\ UNCHANGED <<err, jobId, stages>>
    /\ UNCHANGED <<netVars, pollVars, textVars>>

\* A direct call create_dub_job(file_path, target_locale).
CreateCall ==
    /\ req = "idle"
    /\ req' = "create"
    /\ pc' = "submit"
    /\ locale' \in LocaleInputs
    /\ UNCHANGED <<err, jobId, stages>>
    /\ UNCHANGED <<netVars, pollVars, textVars>>

(***************************************************************************)
(* Media acquisition                                                       *)
(***************************************************************************)
\* app.py step 1 and the first line of api_dub_start.  In the UI the source
\* is a YouTube URL, else an uploaded file, else nothing; the API always
\* downloads from YouTube.
Acquire ==
    /\ pc = "acquire"
    /\ stages' = Append(stages, "acquire")
    /\ \E source \in { "youtube", "upload", "nothing" }, ok \in BOOLEAN :
          /\ req = "api_dub" => source = "youtube"
          /\ CASE source = "youtube" ->
                    /\ ytDownloads' = ytDownloads + 1
                    /\ UNCHANGED filesOpened
                    /\ IF ok THEN pc' = "submit" /\ UNCHANGED err
                             ELSE Fail("AcquisitionFailed", "submit")
               [] source = "upload" ->
                    /\ filesOpened' = filesOpened + 1
                    /\ UNCHANGED ytDownloads
                    /\ IF ok THEN pc' = "submit" /\ UNCHANGED err
                             ELSE Fail("AcquisitionFailed", "submit")
               [] source = "nothing" ->
                    /\ ok
                    /\ UNCHANGED <<ytDownloads, filesOpened>>
                    /\ Fail("NoSource", "submit")
    /\ UNCHANGED <<req, locale, jobId, created, fetches, llmCalls>>
    /\ UNCHANGED <<pollVars, textVars>>

(***************************************************************************)
(* create_dub_job                                                          *)
(***************************************************************************)
\* Replies of murf_client.dubbing.jobs.create: a dict, an object with a
\* __dict__, or an object without one ("slots"); `id` and `job_id` present,
\* None, empty or not there.
CreateReplies ==
    [ kind : { "dict", "object", "slots" },
      id : { Absent, None, "job-1" },
      job_id : { Absent, "job-2" } ]

\* res.get("id") or res.get("job_id")
\* getattr(res, "id", None) or getattr(res, "job_id", None)
NamespaceId(res) == PyOr(Get(res.id), Get(res.job_id))

\* Where the handler goes once the job is created.
AfterSubmit(r) == IF r = "ui_dub" THEN "poll" ELSE "done"

create_dub_job ==
    /\ pc = "submit"
    /\ stages' = Append(stages, "submit")
    /\ \/ \* raise ValueError(f"target_locale ... not in supported TARGET_LOCALES.")
          /\ locale \notin TARGET_LOCALES
          /\ Fail("InvalidLocale", "poll")
          /\ UNCHANGED <<filesOpened, created, jobId, response>>
       \/ \* open(file_path, "rb") fails
          /\ locale \in TARGET_LOCALES
          /\ filesOpened' = filesOpened + 1
          /\ Fail("FileError", "poll")
          /\ UNCHANGED <<created, jobId, response>>
       \/ \* jobs.create raises
          /\ locale \in TARGET_LOCALES
          /\ filesOpened' = filesOpened + 1
          /\ created' = created + 1
          /\ Fail("ProviderError", "poll")
          /\ UNCHANGED <<jobId, response>>
       \/ \* jobs.create replies
          /\ locale \in TARGET_LOCALES
          /\ filesOpened' = filesOpened + 1
          /\ created' = created + 1
          /\ \E res \in CreateReplies :
                IF res.kind = "slots"
                THEN \* res.__dict__ fails: raise ValueError("Unexpected response format")
                     /\ Fail("UnexpectedResponseFormat", "poll")
                     /\ UNCHANGED <<jobId, response>>
                ELSE /\ jobId' = NamespaceId(res)
                     /\ pc' = AfterSubmit(req)
                     /\ response' =
                          IF req = "api_dub"
                          THEN Response("job", Absent, NamespaceId(res),
                                        Absent, Absent, <<>>)
                          ELSE response
                     /\ UNCHANGED err
    /\ UNCHANGED <<req, locale, ytDownloads, fetches, llmCalls>>
    /\ UNCHANGED <<srtIn, srtOut, srtOut2, llm, notes>>
    /\ UNCHANGED pollVars

(***************************************************************************)
(* app.py step 3: poll, resolve the result, download                       *)
(***************************************************************************)
\* final = poll_job_until_complete(job_id)
UiPoll ==
    /\ req = "ui_dub"
    /\ pc = "poll"
    /\ pc' = "polling"
    /\ stages' = Append(stages, "poll")
    /\ PollStart(DefaultPollInterval, DefaultTimeout)
    /\ UNCHANGED <<req, err, locale, jobId>>
    /\ UNCHANGED <<netVars, textVars>>

\* except TimeoutError / except Exception around the poller call
UiPollFailed ==
    /\ req = "ui_dub"
    /\ pc = "polling"
    /\ pollPc \in { "raised", "failed" }
    /\ Fail(IF pollPc = "raised" THEN "PollTimeout" ELSE "DubbingError",
            "resolve")
    /\ UNCHANGED <<req, locale, jobId, stages>>
    /\ UNCHANGED <<netVars, pollVars, textVars>>

\* The code between the poller's return and the first download:
\*   status not COMPLETED      -> "Dub job did not complete."
\*   final.download_details    AttributeError if the payload has none
\*   not details               -> "No download details returned."
\*   first.download_url        AttributeError if the descriptor has none
\*   not download_url          -> "No dubbed video found."
\* An AttributeError is caught by `except Exception` ("Error during dubbing").
Resolve(payload) ==
    LET details == payload.download_details
        first   == details.items[1]
        Outcome(e, u, r) == [err |-> e, download_url |-> u, srt_url |-> r]
    IN
    IF Upper(payload.status) # "COMPLETED"
      THEN Outcome("JobNotCompleted", None, None)
    ELSE IF details.kind = Absent
      THEN Outcome("DubbingError", None, None)
    ELSE IF details.kind = None \/ details.items = <<>>
      THEN Outcome("NoDownloadDetails", None, None)
    ELSE IF first.download_url = Absent
      THEN Outcome("DubbingError", None, None)
    ELSE IF ~Truthy(first.download_url)
      THEN Outcome("NoDubbedMedia", None, Get(first.download_srt_url))
    ELSE Outcome("none", first.download_url, Get(first.download_srt_url))

UiResolve ==
    /\ req = "ui_dub"
    /\ pc = "polling"
    /\ pollPc = "returned"
    /\ stages' = Append(stages, "resolve")
    /\ IF Resolve(final).err # "none"
         THEN Fail(Resolve(final).err, "fetch_video")
         ELSE pc' = "fetch_video" /\ UNCHANGED err
    /\ UNCHANGED <<req, locale, jobId>>
    /\ UNCHANGED <<netVars, pollVars, textVars>>

\* dubbed_video_bytes = download_url_bytes(download_url); the body may be
\* empty.  A transport failure or a non-2xx reply raises.
UiFetchVideo ==
    /\ req = "ui_dub"
    /\ pc = "fetch_video"
    /\ stages' = Append(stages, "download")
    /\ fetches' = fetches + 1
    /\ \E body \in { "failed", "empty", "bytes" } :
          IF body = "failed"
          THEN /\ Fail("DownloadFailed", "present")
               /\ UNCHANGED response
          ELSE /\ pc' = IF Truthy(Resolve(final).srt_url)
                          THEN "fetch_srt" ELSE "present"
               /\ response' = Response("pending", Absent, Absent, body,
                                       Absent, <<>>)
               /\ UNCHANGED err
    /\ UNCHANGED <<req, locale, jobId, ytDownloads, filesOpened, created,
                   llmCalls>>
    /\ UNCHANGED <<srtIn, srtOut, srtOut2, llm, notes>>
    /\ UNCHANGED pollVars

\* if srt_url: srt_bytes = download_url_bytes(srt_url)
UiFetchSrt ==
    /\ req = "ui_dub"
    /\ pc = "fetch_srt"
    /\ fetches' = fetches + 1
    /\ \E body \in { "failed", "empty", "bytes" } :
          IF body = "failed"
          THEN /\ Fail("DownloadFailed", "present")
               /\ UNCHANGED response
          ELSE /\ pc' = "present"
               /\ response' = [response EXCEPT !.subtitles_url = body]
               /\ UNCHANGED err
    /\ UNCHANGED <<req, locale, jobId, stages, ytDownloads, filesOpened,
                   created, llmCalls>>
    /\ UNCHANGED <<srtIn, srtOut, srtOut2, llm, notes>>
    /\ UNCHANGED pollVars

\* Step 4: if dubbed_video_bytes: show both videos and the download buttons.
UiPresent ==
    /\ req = "ui_dub"
    /\ pc = "present"
    /\ pc' = "done"
    /\ stages' = Append(stages, "present")
    /\ response' =
         IF response.dubbed_video_url = "bytes"
         THEN [response EXCEPT !.shape = "results"]
         ELSE [response EXCEPT !.shape = "nothing"]
    /\ UNCHANGED <<req, err, locale, jobId>>
    /\ UNCHANGED <<srtIn, srtOut, srtOut2, llm, notes>>
    /\ UNCHANGED <<netVars, pollVars>>

(***************************************************************************)
(* GET /api/dub_status                                                     *)
(***************************************************************************)
\* status = poll_job_until_complete(job_id=job_id), with the defaults.
ApiStatusCall ==
    /\ req = "idle"
    /\ req' = "api_status"
    /\ pc' = "polling"
    /\ jobId' = "job-1"
    /\ stages' = <<"poll">>
    /\ PollStart(DefaultPollInterval, DefaultTimeout)
    /\ UNCHANGED <<err, locale>>
    /\ UNCHANGED <<netVars, textVars>>

\* The poller raised: nothing in the handler catches it.
ApiStatusRaise ==
    /\ req = "api_status"
    /\ pc = "polling"
    /\ pollPc \in { "raised", "failed" }
    /\ Fail(IF pollPc = "raised" THEN "PollTimeout" ELSE "ProviderError",
            "done")
    /\ UNCHANGED <<req, locale, jobId, stages>>
    /\ UNCHANGED <<netVars, pollVars, textVars>>

\* result = getattr(status, "result", None) or {}
ResultOf(payload) ==
    IF payload.result.kind = "dict" THEN payload.result ELSE NoResult

\* result.get("dubbed_url") or result.get("video_url") or result.get("output_url")
DubbedVideoUrl(payload) ==
    LET r == ResultOf(payload) IN
    PyOr(PyOr(Get(r.dubbed_url), Get(r.video_url)), Get(r.output_url))

\* result.get("subtitles_url") or result.get("srt_url") or result.get("captions_url")
SubtitlesUrl(payload) ==
    LET r == ResultOf(payload) IN
    PyOr(PyOr(Get(r.subtitles_url), Get(r.srt_url)), Get(r.captions_url))

\* The rest of the handler, once the poller has returned.
ApiStatusRespond ==
    /\ req = "api_status"
    /\ pc = "polling"
    /\ pollPc = "returned"
    /\ pc' = "done"
    /\ stages' = Append(stages, "respond")
    /\ LET s == Upper(StatusText(final)) IN
       IF s \notin { "COMPLETED", "FAILED", "ERROR" }
       THEN \* return {"status": s}
            /\ response' = Response("status", s, Absent, Absent, Absent, <<>>)
            /\ UNCHANGED <<fetches, llmCalls, srtIn, srtOut, srtOut2, llm,
                           notes>>
       ELSE IF ~Truthy(SubtitlesUrl(final))
       THEN \* notes = None
            /\ notes' = NoneText
            /\ response' = Response("full", Lower(s), Absent,
                                    DubbedVideoUrl(final),
                                    SubtitlesUrl(final), NoneText)
            /\ UNCHANGED <<fetches, llmCalls, srtIn, srtOut, srtOut2, llm>>
       ELSE /\ fetches' = fetches + 1
            /\ \/ \* download_url_bytes raises: except Exception as e
                  /\ notes' = CouldNotPrefix \o <<" ", "a">>
                  /\ UNCHANGED <<llmCalls, srtIn, srtOut, srtOut2, llm>>
               \/ \* the transcript goes to generate_notes_from_text
                  /\ srtIn' = SrtSample
                  /\ srtOut' = srt_to_plain_text(SrtSample)
                  /\ llmCalls' = llmCalls + 1
                  /\ \E outcome \in LlmOutcomes :
                        /\ llm' = outcome
                        /\ notes' =
                             IF generate_notes_from_text(outcome).raised
                             THEN CouldNotPrefix \o <<" ">> \o outcome.text
                             ELSE generate_notes_from_text(outcome).value
                  /\ UNCHANGED srtOut2
            /\ response' = Response("full", Lower(s), Absent,
                                    DubbedVideoUrl(final),
                                    SubtitlesUrl(final), notes')
    /\ UNCHANGED <<req, err, locale, jobId, ytDownloads, filesOpened,
                   created>>
    /\ UNCHANGED pollVars

(***************************************************************************)
(* Direct calls of the two text functions                                  *)
(***************************************************************************)
\* generate_notes_from_text(text)
NotesCall ==
    /\ req = "idle"
    /\ req' = "notes"
    /\ pc' = "notes"
    /\ srtOut' \in { <<>>, srt_to_plain_text(SrtSample) }
    /\ UNCHANGED <<err, locale, jobId, stages>>
    /\ UNCHANGED <<response, srtIn, srtOut2, llm, notes>>
    /\ UNCHANGED <<netVars, pollVars>>

GenerateNotes ==
    /\ req = "notes"
    /\ pc = "notes"
    /\ llmCalls' = llmCalls + 1
    /\ \E outcome \in LlmOutcomes :
          /\ llm' = outcome
          /\ IF generate_notes_from_text(outcome).raised
               THEN /\ Fail("NotesError", "done")
                    /\ UNCHANGED notes
               ELSE /\ notes' = generate_notes_from_text(outcome).value
                    /\ pc' = "done"
                    /\ UNCHANGED err
    /\ UNCHANGED <<req, locale, jobId, stages>>
    /\ UNCHANGED <<ytDownloads, filesOpened, created, fetches>>
    /\ UNCHANGED <<response, srtIn, srtOut, srtOut2>>
    /\ UNCHANGED pollVars

\* srt_to_plain_text(srt_bytes)
SrtCall ==
    /\ req = "idle"
    /\ req' = "srt"
    /\ pc' = "normalize"
    /\ srtIn' \in SrtInputs
    /\ UNCHANGED <<err, locale, jobId, stages>>
    /\ UNCHANGED <<response, srtOut, srtOut2, llm, notes>>
    /\ UNCHANGED <<netVars, pollVars>>

SrtNormalize ==
    /\ req = "srt"
    /\ pc = "normalize"
    /\ pc' = "renormalize"
    /\ srtOut' = srt_to_plain_text(srtIn)
    /\ UNCHANGED <<req, err, locale, jobId, stages>>
    /\ UNCHANGED <<response, srtIn, srtOut2, llm, notes>>
    /\ UNCHANGED <<netVars, pollVars>>

\* srt_to_plain_text(result.encode())
SrtRenormalize ==
    /\ req = "srt"
    /\ pc = "renormalize"
    /\ pc' = "done"
    /\ srtOut2' = srt_to_plain_text(Encode(srtOut))
    /\ UNCHANGED <<req, err, locale, jobId, stages>>
    /\ UNCHANGED <<response, srtIn, srtOut, llm, notes>>
    /\ UNCHANGED <<netVars, pollVars>>

(***************************************************************************)
(* Specification                                                           *)
(***************************************************************************)
Init ==
    /\ req = "idle"
    /\ pc = "idle"
    /\ err = "none"
    /\ locale = "none"
    /\ jobId = "none"
    /\ stages = <<>>
    /\ ytDownloads = 0
    /\ filesOpened = 0
    /\ created = 0
    /\ fetches = 0
    /\ llmCalls = 0
    /\ pollPc = "idle"
    /\ interval = 0
    /\ timeout = 0
    /\ elapsed = 0
    /\ latency = 0
    /\ attempt = 0
    /\ queries = 0
    /\ nonTermSeen = 0
    /\ termSeen = 0
    /\ termReply = NoReply
    /\ sleeps = 0
    /\ lastSleep = 0
    /\ final = NoReply
    /\ overdue = FALSE
    /\ response = NoResponse
    /\ srtIn = <<>>
    /\ srtOut = <<>>
    /\ srtOut2 = <<>>
    /\ llm = NoLlm
    /\ notes = <<>>

Next ==
    \/ UiDubClick
    \/ ApiDubStart
    \/ CreateCall
    \/ Acquire
    \/ create_dub_job
    \/ UiPoll
    \/ UiPollFailed
    \/ UiResolve
    \/ UiFetchVideo
    \/ UiFetchSrt
    \/ UiPresent
    \/ ApiStatusCall
    \/ ApiStatusRaise
    \/ ApiStatusRespond
    \/ NotesCall
    \/ GenerateNotes
    \/ SrtCall
    \/ SrtNormalize
    \/ SrtRenormalize
    \/ PollCall
    \/ PollQueryTerminal
    \/ PollQueryPending
    \/ PollQueryError
    \/ PollRaiseTimeout
    \/ PollSleep

Spec == Init /\ [][Next]_vars

(***************************************************************************)
(* The poller against a provider that never reaches a terminal status.     *)
(* The loop runs on the caller's thread until it returns or raises, so     *)
(* each of its steps is taken once it is enabled.                          *)
(***************************************************************************)
PendingReplies == { r \in Replies : ~TerminalName(StatusText(r)) }

PollQueryNeverTerminal ==
    \E reply \in PendingReplies : PollQuery(reply)

NextNever ==
    \/ PollCall
    \/ PollQueryNeverTerminal
    \/ PollRaiseTimeout
    \/ PollSleep

SpecNever ==
    /\ Init
    /\ [][NextNever]_vars
    /\ WF_vars(PollQueryNeverTerminal)
    /\ WF_vars(PollRaiseTimeout)
    /\ WF_vars(PollSleep)

(***************************************************************************)
(* Properties                                                              *)
(***************************************************************************)

\* C1: after k non-terminal replies and then a terminal one (COMPLETED,
\* FAILED or ERROR in any letter case) the poller has returned the payload
\* of that terminal reply and has issued exactly k+1 status queries; once a
\* terminal status has been observed no further query is issued.
PollReturnsTerminalPayload ==
    termSeen > 0 =>
        /\ pollPc = "returned"
        /\ termSeen = 1
        /\ final = termReply
        /\ queries = nonTermSeen + 1

PollReturnsTerminalPayloadWitness ==
    /\ pollPc = "returned"
    /\ nonTermSeen = 2
    /\ queries = 3
    /\ final.status = "completed"
    /\ final.download_details.kind = "list"

\* C2: against a provider that never returns a terminal status the poller
\* eventually raises TimeoutError, and whenever it is raised at least
\* timeout_sec seconds have elapsed since the start of polling.
PollTimeoutNotBeforeT ==
    /\ [](pollPc = "raised" => elapsed >= timeout)
    /\ (pollPc = "query" ~> pollPc = "raised")

PollTimeoutNotBeforeTWitness ==
    /\ pollPc = "raised"
    /\ termSeen = 0
    /\ nonTermSeen >= 3
    /\ timeout = MaxTimeout
    /\ elapsed > timeout

\* C3 (as claimed): numbering the sleeps from 0, sleep number n lasts
\* min(I * (1 + floor(n/10)), 15): the first ten sleeps all last I, the next
\* ten min(2I, 15), and no sleep exceeds 15.
BackoffCountsFromZero ==
    sleeps >= 1 =>
        /\ lastSleep = Min(interval * (1 + (sleeps - 1) \div 10), 15)
        /\ (sleeps - 1 \in 0..9 => lastSleep = interval)
        /\ (sleeps - 1 \in 10..19 => lastSleep = Min(2 * interval, 15))
        /\ lastSleep <= 15

\* C3 (amended): `attempt` is incremented before the sleep is computed, so
\* the sleeps are numbered from 1: sleep number n lasts
\* min(I * (1 + floor(n/10)), 15); sleeps 1..9 last I, sleeps 10..19 last
\* min(2I, 15), and no sleep exceeds 15.
BackoffCountsFromOne ==
    sleeps >= 1 =>
        /\ attempt = sleeps
        /\ lastSleep = Min(interval * (1 + sleeps \div 10), 15)
        /\ (sleeps \in 1..9 => lastSleep = interval)
        /\ (sleeps \in 10..19 => lastSleep = Min(2 * interval, 15))
        /\ lastSleep <= 15

BackoffCountsFromOneWitness ==
    /\ pollPc = "query"
    /\ sleeps = 10
    /\ interval = 1
    /\ lastSleep = 2

\* C4 (as claimed): whenever a dub request fails with InvalidLocale, no file
\* has been opened, nothing has been sent to the dubbing provider and no
\* other network call has been made.
InvalidLocaleBeforeAnyCall ==
    err = "InvalidLocale" =>
        /\ filesOpened = 0
        /\ created = 0
        /\ queries = 0
        /\ ytDownloads = 0
        /\ fetches = 0
        /\ llmCalls = 0

\* C5 (as claimed): GET /api/dub_status answers {status} with the
\* non-terminal status when the job is not terminal at the time of the
\* request, without waiting for it to become terminal, and answers
\* {status, dubbed_video_url, subtitles_url, notes} when it is terminal.
DubStatusAnswersWithoutWaiting ==
    (req = "api_status" /\ response.shape # "none") =>
        IF nonTermSeen > 0
        THEN /\ response.shape = "status"
             /\ ~TerminalName(response.status)
             /\ queries = 1
        ELSE /\ response.shape = "full"
             /\ TerminalName(response.status)

HasRun(stage) == \E i \in 1..Len(stages) : stages[i] = stage

\* C6 (as claimed): on a COMPLETED payload the resolver fails with
\* NoDownloadDetails when the descriptor list is missing or empty, and with
\* NoDubbedMedia when the first descriptor has a subtitle URL but no
\* dubbed-media URL; in both cases nothing is fetched and nothing presented.
ResolverNamesTheMissingPart ==
    LET details == final.download_details
        first   == details.items[1]
    IN
    (req = "ui_dub" /\ HasRun("resolve") /\ Upper(final.status) = "COMPLETED")
    =>
      /\ (details.kind \in { Absent, None } \/ details.items = <<>>) =>
            /\ err = "NoDownloadDetails"
            /\ fetches = 0
            /\ response.shape = "none"
      /\ ( /\ details.kind = "list"
           /\ details.items # <<>>
           /\ ~Truthy(first.download_url)
           /\ Truthy(first.download_srt_url) ) =>
            /\ err = "NoDubbedMedia"
            /\ fetches = 0
            /\ response.shape = "none"

\* C7 (as claimed): create_dub_job never hands back a job without an
\* identifier, so the poller is never started with a missing job id.
CreatedJobHasId ==
    /\ (HasRun("submit") /\ err = "none") => Truthy(jobId)
    /\ (req = "ui_dub" /\ pollPc # "idle") => Truthy(jobId)

\* C8 (as claimed): srt_to_plain_text applied to its own result gives that
\* result again.
NormalizeIsIdempotent ==
    (req = "srt" /\ pc = "done") => srtOut2 = srtOut

\* C9: generate_notes_from_text never lets a failure of the model call
\* escape: a failed call yields a text beginning with
\* "- (Error generating notes)", a successful one the trimmed reply, and the
\* caller (the direct call, GET /api/dub_status) goes on to its end.
NotesNeverPropagate ==
    llm.called =>
        /\ pc = "done"
        /\ err = "none"
        /\ (llm.ok => notes = Strip(llm.text))
        /\ (~llm.ok => BeginsWith(notes, NotesErrorPrefix))
        /\ (req = "api_status" =>
               response.shape = "full" /\ response.notes = notes)

NotesNeverPropagateWitness ==
    /\ req = "api_status"
    /\ llm.called
    /\ ~llm.ok
    /\ llm.text = <<"a">>
    /\ response.notes = << "- (Error generating notes)", " ", "a" >>

\* C10: within one dubbing request of the Streamlit handler the stages run
\* in the order acquisition, submission, polling, resolution, download,
\* presentation, each at most once, and once a stage has failed (or the
\* poller has raised) no stage runs and no file or network call is made.
StageOrder ==
    << "acquire", "submit", "poll", "resolve", "download", "present" >>

DubStagesRunOnceInOrder ==
    /\ [](req = "ui_dub" =>
            /\ Len(stages) <= Len(StageOrder)
            /\ stages = SubSeq(StageOrder, 1, Len(stages))
            /\ created <= 1
            /\ ytDownloads + filesOpened <= 2)
    /\ [][ (req = "ui_dub" /\ (err # "none" \/ pollPc \in {"raised", "failed"}))
             => UNCHANGED <<stages, ytDownloads, filesOpened, created,
                            queries, fetches, llmCalls, pollPc>> ]_vars

DubStagesRunOnceInOrderWitness ==
    /\ req = "ui_dub"
    /\ err = "PollTimeout"
    /\ pc = "stopped"
    /\ stages = << "acquire", "submit", "poll" >>
    /\ queries > 100

\* C11: the timeout is tested only after a query whose status was not
\* terminal: a call that has ended has issued at least one status query
\* (also with timeout_sec = 0), a terminal reply is always handed back as the
\* result, even when more than timeout_sec seconds have elapsed by then, and
\* TimeoutError is raised only after replies that were all non-terminal.
TimeoutTestedAfterPendingReply ==
    /\ pollPc \in { "returned", "raised", "failed" } => queries >= 1
    /\ pollPc = "check" => (nonTermSeen >= 1 /\ termSeen = 0)
    /\ pollPc = "raised" =>
          /\ termSeen = 0
          /\ nonTermSeen = queries
          /\ nonTermSeen >= 1
    /\ termSeen > 0 => (pollPc = "returned" /\ final = termReply)
    /\ overdue => (pollPc = "returned" /\ final = termReply)

TimeoutTestedAfterPendingReplyWitness ==
    /\ req = "poll"
    /\ pollPc = "returned"
    /\ overdue
    /\ timeout = 0
    /\ queries = 2
    /\ final = termReply
    /\ final.status = "FAILED"

====
